---------------------------- MODULE Spec2Model ----------------------------
(***************************************************************************)
(* A model of PySpectroscope (src/spectroscope.py): the SpectrometerApp    *)
(* object, its Tk timer loop (update), the spectrum extraction             *)
(* (_draw_spectrum), the snapshot exporter (_save_snapshot), and the pure  *)
(* functions _px_to_nm, _nm_to_px and _wavelength_to_rgb.                  *)
(*                                                                         *)
(* Python floats are modelled by exact rationals [n, d] in lowest terms    *)
(* with d > 0.  The one irrational step, x ** 0.8, is computed in fixed    *)
(* point (see pow_gamma).                                                  *)
(***************************************************************************)
EXTENDS Integers, Sequences, FiniteSets, TLC

VARIABLES
    \* ---- the SpectrometerApp object and its environment
    phase,            \* "new" | "constructed" | "running" | "failed"
    calibration,      \* SpectrometerApp.calibration: <<<<px0, nm0>>, <<px1, nm1>>>>
    error,            \* the exception that escaped a handler ("none" if none)
    pixel_ticks,      \* the x axis' FixedLocator positions, set by _set_ax_ticks
    current_frame,    \* self._current_frame: None or Some(frame)
    segments,         \* self.lc segments
    lc_colors,        \* self.lc colours
    verts,            \* self.pc polygons
    pc_facecolors,    \* self.pc face colours
    pc_edgecolors,    \* self.pc edge colours
    overlay_tk_img,   \* self.overlay_tk_img: None or Some(image)
    draw_pending,     \* canvas.draw_idle() requested and not yet drawn
    after_queue,      \* number of pending window.after(30, self.update) callbacks
    status_text,      \* self.status_lbl text
    files,            \* names of the files on disk
    after_serial,     \* the serial Tk gives the next after() callback
    n_writes,         \* number of file writes performed
    \* ---- one call chain of the calibration functions
    c_step, c_arg, c_mid, c_res,
    \* ---- one call of _wavelength_to_rgb
    w_step, w_nm, w_max, w_raw, w_factor, w_rgb

appVars == <<phase, error, pixel_ticks, current_frame, segments, lc_colors, verts,
             pc_facecolors, pc_edgecolors, overlay_tk_img, draw_pending, after_queue,
             after_serial, status_text, files, n_writes>>
calVars == <<c_step, c_arg, c_mid, c_res>>
rgbVars == <<w_step, w_nm, w_max, w_raw, w_factor, w_rgb>>
vars == <<calibration, appVars, calVars, rgbVars>>

-----------------------------------------------------------------------------
(* Optional values *)
None == <<>>
Some(v) == <<v>>

-----------------------------------------------------------------------------
(* Exact rational arithmetic standing for float arithmetic *)
Abs(i) == IF i < 0 THEN -i ELSE i

RECURSIVE GCD(_, _)
GCD(a, b) == IF b = 0 THEN a ELSE GCD(b, a % b)

\* the rational n/d (d # 0) in lowest terms with a positive denominator
Rat(n, d) ==
    LET g == GCD(Abs(n), Abs(d))
        s == IF d < 0 THEN -1 ELSE 1
    IN  [n |-> s * (n \div g), d |-> s * (d \div g)]

RInt(i) == [n |-> i, d |-> 1]
RAdd(p, q) == Rat(p.n * q.d + q.n * p.d, p.d * q.d)
RSub(p, q) == Rat(p.n * q.d - q.n * p.d, p.d * q.d)
RMul(p, q) == Rat(p.n * q.n, p.d * q.d)
RLe(p, q) == p.n * q.d <= q.n * p.d
RLt(p, q) == p.n * q.d < q.n * p.d
RNeg(p) == [n |-> -p.n, d |-> p.d]

\* Python's int(x) of a float: truncation toward zero
PyInt(p) == IF p.n >= 0 THEN p.n \div p.d ELSE -((-p.n) \div p.d)

\* the result of a call: a value, or the exception it raised
Value(v) == [exc |-> "none", val |-> v]
Raise(e) == [exc |-> e, val |-> RInt(0)]

-----------------------------------------------------------------------------
(* The calibration functions *)
FRAME_WIDTH == 1280
FRAME_HEIGHT == 720

RealCalibration == <<<<305, 405>>, <<707, 631>>>>

\* _nm_to_px with the scale factor nmperpx instead of its reciprocal
nm_to_px_same_scale(cal, nm) ==
    LET px0 == cal[1][1]
        px1 == cal[2][1]
        nm0 == cal[1][2]
        nm1 == cal[2][2]
        nm_range == Abs(nm0 - nm1)
        px_range == Abs(px0 - px1)
    IN  IF px_range = 0 THEN Raise("ZeroDivisionError")
        ELSE Value(RAdd(RInt(px0), RMul(RSub(nm, RInt(nm0)), Rat(nm_range, px_range))))

\* _nm_to_px(nm): px0 + (nm - nm0) * (px_range / nm_range)
nm_to_px(cal, nm) ==
    LET px0 == cal[1][1]
        px1 == cal[2][1]
        nm0 == cal[1][2]
        nm1 == cal[2][2]
        nm_range == Abs(nm0 - nm1)
        px_range == Abs(px0 - px1)
    IN  IF nm_range = 0 THEN Raise("ZeroDivisionError")
        ELSE Value(RAdd(RInt(px0), RMul(RSub(nm, RInt(nm0)), Rat(px_range, nm_range))))

\* _px_to_nm(x): nm0 + (x - px0) * (nm_range / px_range)
px_to_nm(cal, x) ==
    LET px0 == cal[1][1]
        px1 == cal[2][1]
        nm0 == cal[1][2]
        nm1 == cal[2][2]
        nm_range == Abs(nm0 - nm1)
        px_range == Abs(px0 - px1)
    IN  IF px_range = 0 THEN Raise("ZeroDivisionError")
        ELSE Value(RAdd(RInt(nm0), RMul(RSub(x, RInt(px0)), Rat(nm_range, px_range))))


-----------------------------------------------------------------------------
(* The wavelength-to-colour mapper *)

\* resolution of the fixed-point power: pow_gamma returns multiples of 1/PowScale
PowScale == 40

P4(y) == y * y * y * y
P5(y) == y * y * y * y * y

\* the marker of a complex number (a negative float raised to a fractional power)
Complex == [n |-> 0, d |-> 0]

\* base ** gamma with gamma = 0.8 = 4/5, for base >= 0: base is truncated to a
\* multiple a/PowScale and the result is the largest y/PowScale with
\* (y/PowScale)^5 <= (a/PowScale)^4.  Exact at 0 and at 1, monotone.
pow_gamma(base) ==
    IF base.n < 0 THEN Complex
    ELSE LET a == (base.n * PowScale) \div base.d
             y == CHOOSE z \in 0..(2 * PowScale + 2) :
                     P5(z) <= P4(a) * PowScale /\ P4(a) * PowScale < P5(z + 1)
         IN  Rat(y, PowScale)

\* the six bands of the raw (r, g, b), lines 191-208
raw_rgb(nm) ==
    LET zero == RInt(0)
        one == RInt(1)
    IN  IF RLe(RInt(380), nm) /\ RLt(nm, RInt(440))
          THEN <<RMul(RNeg(RSub(nm, RInt(440))), Rat(1, 440 - 380)), zero, one>>
        ELSE IF RLe(RInt(440), nm) /\ RLt(nm, RInt(490))
          THEN <<zero, RMul(RSub(nm, RInt(440)), Rat(1, 490 - 440)), one>>
        ELSE IF RLe(RInt(490), nm) /\ RLt(nm, RInt(510))
          THEN <<zero, one, RMul(RNeg(RSub(nm, RInt(510))), Rat(1, 510 - 490))>>
        ELSE IF RLe(RInt(510), nm) /\ RLt(nm, RInt(580))
          THEN <<RMul(RSub(nm, RInt(510)), Rat(1, 580 - 510)), one, zero>>
        ELSE IF RLe(RInt(580), nm) /\ RLt(nm, RInt(645))
          THEN <<one, RMul(RNeg(RSub(nm, RInt(645))), Rat(1, 645 - 580)), zero>>
        ELSE IF RLe(RInt(645), nm) /\ RLe(nm, RInt(780))
          THEN <<one, zero, zero>>
        ELSE <<zero, zero, zero>>

\* the taper with its falling ramp started at 645 instead of 701
taper_factor_early_ramp(nm) ==
    IF RLe(RInt(380), nm) /\ RLt(nm, RInt(420))
      THEN RAdd(Rat(3, 10), RMul(RMul(Rat(7, 10), RSub(nm, RInt(380))), Rat(1, 420 - 380)))
    ELSE IF RLe(RInt(420), nm) /\ RLt(nm, RInt(645))
      THEN RInt(1)
    ELSE IF RLe(RInt(645), nm) /\ RLe(nm, RInt(780))
      THEN RAdd(Rat(3, 10), RMul(RMul(Rat(7, 10), RSub(RInt(780), nm)), Rat(1, 780 - 700)))
    ELSE RInt(0)

\* the taper with its falling ramp divided by (780 - 701)
taper_factor_701(nm) ==
    IF RLe(RInt(380), nm) /\ RLt(nm, RInt(420))
      THEN RAdd(Rat(3, 10), RMul(RMul(Rat(7, 10), RSub(nm, RInt(380))), Rat(1, 420 - 380)))
    ELSE IF RLe(RInt(420), nm) /\ RLt(nm, RInt(701))
      THEN RInt(1)
    ELSE IF RLe(RInt(701), nm) /\ RLe(nm, RInt(780))
      THEN RAdd(Rat(3, 10), RMul(RMul(Rat(7, 10), RSub(RInt(780), nm)), Rat(1, 780 - 701)))
    ELSE RInt(0)

\* the intensity taper `factor`, lines 210-216
taper_factor(nm) ==
    IF RLe(RInt(380), nm) /\ RLt(nm, RInt(420))
      THEN RAdd(Rat(3, 10), RMul(RMul(Rat(7, 10), RSub(nm, RInt(380))), Rat(1, 420 - 380)))
    ELSE IF RLe(RInt(420), nm) /\ RLt(nm, RInt(701))
      THEN RInt(1)
    ELSE IF RLe(RInt(701), nm) /\ RLe(nm, RInt(780))
      THEN RAdd(Rat(3, 10), RMul(RMul(Rat(7, 10), RSub(RInt(780), nm)), Rat(1, 780 - 700)))
    ELSE RInt(0)

\* adjust(color), lines 218-219; base is the value raised to the power gamma
adjust_base(color, factor) == RMul(color, factor)

adjust(color, factor, max_intensity) ==
    IF color.n > 0 THEN RMul(max_intensity, pow_gamma(adjust_base(color, factor)))
    ELSE RInt(0)

\* the tail of _wavelength_to_rgb, lines 218-221: its locals and its result
shade(raw, factor, max_intensity) ==
    [raw |-> raw,
     factor |-> factor,
     base |-> <<adjust_base(raw[1], factor), adjust_base(raw[2], factor),
                adjust_base(raw[3], factor)>>,
     rgb |-> <<adjust(raw[1], factor, max_intensity),
               adjust(raw[2], factor, max_intensity),
               adjust(raw[3], factor, max_intensity)>>]

\* _wavelength_to_rgb(nm, max_intensity)
wavelength_to_rgb(nm, max_intensity) == shade(raw_rgb(nm), taper_factor(nm), max_intensity)

\* _px_to_rgb(x, max_intensity), lines 180-183; nm is the result of _px_to_nm(x)
rgb_of(nm, max_intensity) ==
    IF nm.exc # "none" THEN [exc |-> nm.exc, val |-> <<>>]
    ELSE [exc |-> "none", val |-> wavelength_to_rgb(nm.val, max_intensity).rgb]

px_to_rgb(cal, x, max_intensity) == rgb_of(px_to_nm(cal, RInt(x)), max_intensity)

-----------------------------------------------------------------------------
(* Frames delivered by the capture device *)

MaxHeight == 2
MaxWidth == 3

\* pixel values (B, G, R) the modelled camera delivers
Palette == << <<0, 0, 255>>, <<255, 128, 0>> >>

\* a row of w pixels: it starts at palette entry a and steps by s per column
CameraRow(w, a, s) == [x \in 1..w |-> Palette[((a + s * (x - 1)) % Len(Palette)) + 1]]

\* the frames vid.read() can return: a sequence of rows of (B, G, R) pixels
Frames ==
    UNION { { [y \in 1..h |-> CameraRow(w, a[y], s)] :
                a \in [1..h -> 0..(Len(Palette) - 1)], s \in 0..1 } :
            h \in 1..MaxHeight, w \in 1..MaxWidth }

\* frame.shape
Height(frame) == Len(frame)
Width(frame) == Len(frame[1])

\* cv2.cvtColor(frame, cv2.COLOR_BGR2GRAY): the standard luminance, rounded
GrayPixel(p) == (114 * p[1] + 587 * p[2] + 299 * p[3] + 500) \div 1000
BGR2GRAY(frame) == [y \in 1..Height(frame) |-> [x \in 1..Width(frame) |-> GrayPixel(frame[y][x])]]

\* cv2.cvtColor(small_frame, cv2.COLOR_BGR2RGB)
BGR2RGB(frame) ==
    [y \in 1..Height(frame) |-> [x \in 1..Width(frame) |->
        <<frame[y][x][3], frame[y][x][2], frame[y][x][1]>>]]

\* the overlay image: the frame resized to the label's size and converted to RGB.
\* The resize is kept symbolic: the image is named by its size and its source.
OverlaySize == <<320, 240>>
overlay_image(frame) == [size |-> OverlaySize, of |-> BGR2RGB(frame)]

\* 0-based indexing as numpy does it for an index >= 0
InBounds(seq, i) == 0 <= i /\ i < Len(seq)
At(seq, i) == seq[i + 1]

-----------------------------------------------------------------------------
(* _draw_spectrum *)

\* the row above the middle one for an even height: (height - 1) // 2
mid_row_upper(height) == (height - 1) \div 2
\* mid_y = height // 2
mid_row(height) == height \div 2

\* range(width - 1)
px_range(width) == 0..(width - 2)

\* lines 119-129 of _draw_spectrum: the new lc and pc contents for the columns
\* pxs of intensity_line, or the exception raised
plot(cal, pxs, intensity_line) ==
    IF pxs # {} /\ px_to_nm(cal, RInt(0)).exc # "none"
      THEN [exc |-> px_to_nm(cal, RInt(0)).exc]
    ELSE IF \E px \in pxs : ~InBounds(intensity_line, px) \/ ~InBounds(intensity_line, px + 1)
      THEN [exc |-> "IndexError"]
    ELSE [exc |-> "none",
          segments |-> [k \in 1..Cardinality(pxs) |->
              << <<k - 1, At(intensity_line, k - 1)>>, <<k, At(intensity_line, k)>> >>],
          lc_colors |-> [k \in 1..Cardinality(pxs) |-> px_to_rgb(cal, k - 1, Rat(1, 2)).val],
          verts |-> [k \in 1..Cardinality(pxs) |->
              << <<k - 1, 0>>, <<k - 1, At(intensity_line, k - 1)>>,
                 <<k, At(intensity_line, k)>>, <<k, 0>> >>],
          pc_colors |-> [k \in 1..Cardinality(pxs) |-> px_to_rgb(cal, k - 1, RInt(1)).val]]

\* _draw_spectrum(frame), lines 109-129
draw_spectrum(cal, frame) ==
    IF ~InBounds(frame, mid_row(Height(frame)))
      THEN [exc |-> "IndexError"]
    ELSE plot(cal, px_range(Width(frame)), At(BGR2GRAY(frame), mid_row(Height(frame))))

-----------------------------------------------------------------------------
(* __init__ and _set_ax_ticks *)

\* the calibrations the application is built with: the one of the source and
\* the two degenerate kinds, equal pixel columns and equal wavelengths
AppCalibrations ==
    { RealCalibration,
      << <<305, 405>>, <<305, 631>> >>,
      << <<305, 405>>, <<707, 405>> >> }

\* _draw_spectrum tabulated over the calibrations and frames of the model
spectrum_of == [cal \in AppCalibrations, frame \in Frames |-> draw_spectrum(cal, frame)]

\* np.arange(start, stop, step) for step > 0
arange(start, stop, step) ==
    LET count == IF stop > start THEN (stop - start + step - 1) \div step ELSE 0
    IN  [i \in 1..count |-> start + step * (i - 1)]

\* _set_ax_ticks(): the pixel positions of the axis ticks, or the exception raised
set_ax_ticks(cal) ==
    LET lo == px_to_nm(cal, RInt(0))
        hi == px_to_nm(cal, RInt(FRAME_WIDTH))
    IN  IF lo.exc # "none" THEN [exc |-> lo.exc, val |-> <<>>]
        ELSE LET start_nm == PyInt(lo.val)
                 end_nm == PyInt(hi.val)
                 nm_ticks == arange((start_nm \div 50 + 1) * 50, end_nm, 50)
                 px == [i \in 1..Len(nm_ticks) |-> nm_to_px(cal, RInt(nm_ticks[i]))]
             IN  IF \E i \in 1..Len(nm_ticks) : px[i].exc # "none"
                   THEN [exc |-> "ZeroDivisionError", val |-> <<>>]
                 ELSE [exc |-> "none", val |-> [i \in 1..Len(nm_ticks) |-> px[i].val]]

Ready == <<"Ready">>

\* SpectrometerApp(window, video_source): __init__
Construct ==
    /\ phase = "new"
    /\ LET ticks == set_ax_ticks(calibration)
       IN  /\ current_frame' = None
           /\ segments' = <<>>
           /\ lc_colors' = <<>>
           /\ verts' = <<>>
           /\ pc_facecolors' = <<>>
           /\ pc_edgecolors' = <<>>
           /\ IF ticks.exc # "none"
                THEN /\ phase' = "failed"
                     /\ error' = ticks.exc
                     /\ UNCHANGED <<pixel_ticks, overlay_tk_img, status_text>>
                ELSE /\ phase' = "constructed"
                     /\ pixel_ticks' = ticks.val
                     /\ overlay_tk_img' = None
                     /\ status_text' = Ready
                     /\ UNCHANGED error
    /\ UNCHANGED <<calibration, draw_pending, after_queue, after_serial, files, n_writes>>
    /\ UNCHANGED <<calVars, rgbVars>>

-----------------------------------------------------------------------------
(* The timer loop *)

\* largest serial of an after() callback; serials wrap around after it
MaxAfterId == 1

\* window.after(30, self.update): the queue with one more pending callback
window_after(queue) == queue \cup {after_serial}

\* update() that re-arms the timer only after a successful read
update_rearm_on_success(ret, frame, queue) ==
    IF ret
      THEN \E d \in {spectrum_of[calibration, frame]} :
               /\ segments' = d.segments
               /\ lc_colors' = d.lc_colors
               /\ verts' = d.verts
               /\ pc_facecolors' = d.pc_colors
               /\ pc_edgecolors' = d.pc_colors
               /\ overlay_tk_img' = Some(overlay_image(frame))
               /\ current_frame' = Some(frame)
               /\ draw_pending' = TRUE
               /\ after_queue' = window_after(queue)
               /\ after_serial' = (after_serial + 1) % (MaxAfterId + 1)
               /\ UNCHANGED error
      ELSE /\ after_queue' = queue
           /\ UNCHANGED <<segments, lc_colors, verts, pc_facecolors, pc_edgecolors,
                          overlay_tk_img, current_frame, draw_pending, error, after_serial>>

\* update() that requests the redraw outside the `if ret:` block
update_always_redraws(ret, frame, queue) ==
    IF ret
      THEN \E d \in {spectrum_of[calibration, frame]} :
               /\ segments' = d.segments
               /\ lc_colors' = d.lc_colors
               /\ verts' = d.verts
               /\ pc_facecolors' = d.pc_colors
               /\ pc_edgecolors' = d.pc_colors
               /\ overlay_tk_img' = Some(overlay_image(frame))
               /\ current_frame' = Some(frame)
               /\ draw_pending' = TRUE
               /\ after_queue' = window_after(queue)
               /\ after_serial' = (after_serial + 1) % (MaxAfterId + 1)
               /\ UNCHANGED error
      ELSE /\ draw_pending' = TRUE
           /\ after_queue' = window_after(queue)
           /\ after_serial' = (after_serial + 1) % (MaxAfterId + 1)
           /\ UNCHANGED <<segments, lc_colors, verts, pc_facecolors, pc_edgecolors,
                          overlay_tk_img, current_frame, error>>

\* update() without the call of _draw_spectrum
update_store_only(ret, frame, queue) ==
    IF ret
      THEN /\ current_frame' = Some(frame)
           /\ overlay_tk_img' = Some(overlay_image(frame))
           /\ draw_pending' = TRUE
           /\ after_queue' = window_after(queue)
           /\ after_serial' = (after_serial + 1) % (MaxAfterId + 1)
           /\ UNCHANGED <<segments, lc_colors, verts, pc_facecolors, pc_edgecolors, error>>
      ELSE /\ after_queue' = window_after(queue)
           /\ after_serial' = (after_serial + 1) % (MaxAfterId + 1)
           /\ UNCHANGED <<segments, lc_colors, verts, pc_facecolors, pc_edgecolors,
                          overlay_tk_img, current_frame, draw_pending, error>>

\* update(): one run of the timer callback, lines 84-96.  (ret, frame) is what
\* self.vid.read() returned, queue the pending callbacks when it starts.  An
\* exception raised by _draw_spectrum leaves the callback before window.after.
update(ret, frame, queue) ==
    IF ret
      THEN \E d \in {spectrum_of[calibration, frame]} :
               IF d.exc # "none"
                 THEN /\ error' = d.exc
                      /\ after_queue' = queue
                      /\ UNCHANGED <<segments, lc_colors, verts, pc_facecolors,
                                     pc_edgecolors, overlay_tk_img, current_frame,
                                     draw_pending, after_serial>>
                 ELSE /\ segments' = d.segments
                      /\ lc_colors' = d.lc_colors
                      /\ verts' = d.verts
                      /\ pc_facecolors' = d.pc_colors
                      /\ pc_edgecolors' = d.pc_colors
                      /\ overlay_tk_img' = Some(overlay_image(frame))
                      /\ current_frame' = Some(frame)
                      /\ draw_pending' = TRUE
                      /\ after_queue' = window_after(queue)
                      /\ after_serial' = (after_serial + 1) % (MaxAfterId + 1)
                      /\ UNCHANGED error
      ELSE /\ after_queue' = window_after(queue)
           /\ after_serial' = (after_serial + 1) % (MaxAfterId + 1)
           /\ UNCHANGED <<segments, lc_colors, verts, pc_facecolors, pc_edgecolors,
                          overlay_tk_img, current_frame, draw_pending, error>>

\* a frame that stands for the ignored second result of a failed vid.read()
NoFrame == <<>>

\* run_forever(): the first update() is called directly, then mainloop() starts;
\* that first vid.read() fails or returns one of `frames`
RunForeverReads(frames) ==
    /\ phase = "constructed"
    /\ phase' = "running"
    /\ UNCHANGED <<calibration, pixel_ticks, status_text, files, n_writes>>
    /\ UNCHANGED <<calVars, rgbVars>>
    /\ \/ \E frame \in frames : update(TRUE, frame, after_queue)
       \/ update(FALSE, NoFrame, after_queue)

RunForever == RunForeverReads(Frames)

\* the timer fires a pending callback whose vid.read() returns one of `frames`
TickReads(frames) ==
    /\ phase = "running"
    /\ UNCHANGED <<phase, calibration, pixel_ticks, status_text, files, n_writes>>
    /\ UNCHANGED <<calVars, rgbVars>>
    /\ \E id \in after_queue, frame \in frames : update(TRUE, frame, after_queue \ {id})

\* the timer fires a pending callback whose vid.read() succeeds
TickOk == TickReads(Frames)

\* the timer fires a pending callback whose vid.read() fails
TickFail ==
    /\ phase = "running"
    /\ UNCHANGED <<phase, calibration, pixel_ticks, status_text, files, n_writes>>
    /\ UNCHANGED <<calVars, rgbVars>>
    /\ \E id \in after_queue : update(FALSE, NoFrame, after_queue \ {id})

\* the idle redraw canvas.draw_idle() asked for
IdleDraw ==
    /\ phase = "running"
    /\ draw_pending
    /\ draw_pending' = FALSE
    /\ UNCHANGED <<phase, calibration, error, pixel_ticks, current_frame, segments,
                   lc_colors, verts, pc_facecolors, pc_edgecolors, overlay_tk_img,
                   after_queue, after_serial, status_text, files, n_writes>>
    /\ UNCHANGED <<calVars, rgbVars>>

-----------------------------------------------------------------------------
(* _save_snapshot *)

\* the clock: seconds of the day datetime.now() can return, around a minute's end
FirstTime == 59
MaxTime == 1
Times == FirstTime..(FirstTime + MaxTime)

\* the cap on the file writes of one run of the model
MaxWrites == 4

\* strftime("%Y%m%d_%H%M%S") of a time of the model's day: <<hour, minute, second>>
strftime(t) == <<t \div 3600, (t \div 60) % 60, t % 60>>

snapshot_name(timestamp) == <<"spectrum_", timestamp, ".png">>
graph_name(timestamp) == <<"spectrum_", timestamp, "_graph.png">>
saved_message(timestamp) == <<"File spectrum_", timestamp, ".png saved">>

\* _save_snapshot() without its `is None` guard
save_snapshot_unguarded(now) ==
    \E timestamp \in {strftime(now)} :
        /\ files' = files \cup {snapshot_name(timestamp), graph_name(timestamp)}
        /\ n_writes' = n_writes + 2
        /\ status_text' = saved_message(timestamp)

\* _save_snapshot(), lines 223-236; now is what datetime.datetime.now() returns
save_snapshot(now) ==
    IF current_frame = None
      THEN UNCHANGED <<files, n_writes, status_text>>
      ELSE \E timestamp \in {strftime(now)} :
               /\ files' = files \cup {snapshot_name(timestamp), graph_name(timestamp)}
               /\ n_writes' = n_writes + 2
               /\ status_text' = saved_message(timestamp)

\* the "Save Spectrum" button is pressed
SaveSnapshot ==
    /\ phase = "running"
    /\ n_writes + 2 <= MaxWrites
    /\ \E now \in Times : save_snapshot(now)
    /\ UNCHANGED <<phase, calibration, error, pixel_ticks, current_frame, segments,
                   lc_colors, verts, pc_facecolors, pc_edgecolors, overlay_tk_img,
                   draw_pending, after_queue, after_serial>>
    /\ UNCHANGED <<calVars, rgbVars>>

-----------------------------------------------------------------------------
(* The application: construction, the timer loop, the button *)

CalIdle ==
    /\ c_step = "idle"
    /\ c_arg = RInt(0)
    /\ c_mid = Value(RInt(0))
    /\ c_res = Value(RInt(0))

RgbIdle ==
    /\ w_step = "idle"
    /\ w_nm = RInt(0)
    /\ w_max = RInt(0)
    /\ w_raw = <<>>
    /\ w_factor = RInt(0)
    /\ w_rgb = <<>>

AppNew ==
    /\ phase = "new"
    /\ error = "none"
    /\ pixel_ticks = <<>>
    /\ current_frame = None
    /\ segments = <<>>
    /\ lc_colors = <<>>
    /\ verts = <<>>
    /\ pc_facecolors = <<>>
    /\ pc_edgecolors = <<>>
    /\ overlay_tk_img = None
    /\ draw_pending = FALSE
    /\ after_queue = {}
    /\ after_serial = 0
    /\ status_text = <<>>
    /\ files = {}
    /\ n_writes = 0

Init ==
    /\ calibration \in AppCalibrations
    /\ AppNew
    /\ CalIdle
    /\ RgbIdle

Next ==
    \/ Construct
    \/ RunForever
    \/ TickOk
    \/ TickFail
    \/ IdleDraw
    \/ SaveSnapshot

Spec == Init /\ [][Next]_vars

\* The timer loop with a camera of one-row frames.  Tk runs a due after()
\* callback, so the timer is fair: a pending tick is run.
LiveFrames == {frame \in Frames : Height(frame) = 1}
LiveRunForever == RunForeverReads(LiveFrames)
LiveTickOk == TickReads(LiveFrames)
Tick == TickFail \/ LiveTickOk

LiveNext ==
    \/ Construct
    \/ LiveRunForever
    \/ LiveTickOk
    \/ TickFail
    \/ IdleDraw
    \/ SaveSnapshot

SpecLive == Init /\ [][LiveNext]_vars /\ WF_vars(Tick)

-----------------------------------------------------------------------------
(* The calibration functions on their own: one call chain per behaviour *)

\* calibration points on a small grid, next to the one of the source and its
\* variants with the axes running in opposite directions
MaxCalPx == 2
CalWavelengths == {405, 500, 631}
Calibrations ==
    { RealCalibration,
      << <<707, 405>>, <<305, 631>> >>,
      << <<305, 631>>, <<707, 405>> >> }
    \cup { << <<p0, n0>>, <<p1, n1>> >> :
             p0 \in 0..MaxCalPx, p1 \in 0..MaxCalPx,
             n0 \in CalWavelengths, n1 \in CalWavelengths }

NonDegenerate(cal) == cal[1][1] # cal[2][1] /\ cal[1][2] # cal[2][2]

\* the wavelengths the functions are called with
NmMin == 370
NmMax == 790

\* the pixel columns every calibration is called with
MaxPx == 8
PxInputs(cal) ==
    (0..MaxPx) \cup {cal[1][1], cal[2][1], FRAME_WIDTH}
    \cup (IF cal[1][1] > MaxCalPx THEN 0..FRAME_WIDTH ELSE {})
NmInputs(cal) == (NmMin..NmMax) \cup {cal[1][2], cal[2][2]}

CalInit ==
    /\ calibration \in Calibrations
    /\ \/ c_step = "px" /\ c_arg \in {RInt(x) : x \in PxInputs(calibration)}
       \/ c_step = "nm" /\ c_arg \in {RInt(nm) : nm \in NmInputs(calibration)}
    /\ c_mid = Value(RInt(0))
    /\ c_res = Value(RInt(0))
    /\ AppNew
    /\ RgbIdle

\* _px_to_nm(x)
CallPxToNm ==
    /\ c_step = "px"
    /\ c_mid' = px_to_nm(calibration, c_arg)
    /\ c_step' = "px_nm"
    /\ UNCHANGED <<c_arg, c_res>>
    /\ UNCHANGED <<calibration, appVars, rgbVars>>

\* _nm_to_px(_px_to_nm(x))
ThenNmToPx ==
    /\ c_step = "px_nm"
    /\ c_mid.exc = "none"
    /\ c_res' = nm_to_px(calibration, c_mid.val)
    /\ c_step' = "px_nm_px"
    /\ UNCHANGED <<c_arg, c_mid>>
    /\ UNCHANGED <<calibration, appVars, rgbVars>>

\* _nm_to_px(nm)
CallNmToPx ==
    /\ c_step = "nm"
    /\ c_mid' = nm_to_px(calibration, c_arg)
    /\ c_step' = "nm_px"
    /\ UNCHANGED <<c_arg, c_res>>
    /\ UNCHANGED <<calibration, appVars, rgbVars>>

\* _px_to_nm(_nm_to_px(nm))
ThenPxToNm ==
    /\ c_step = "nm_px"
    /\ c_mid.exc = "none"
    /\ c_res' = px_to_nm(calibration, c_mid.val)
    /\ c_step' = "nm_px_nm"
    /\ UNCHANGED <<c_arg, c_mid>>
    /\ UNCHANGED <<calibration, appVars, rgbVars>>

CalNext ==
    \/ CallPxToNm
    \/ ThenNmToPx
    \/ CallNmToPx
    \/ ThenPxToNm

SpecCal == CalInit /\ [][CalNext]_vars

-----------------------------------------------------------------------------
(* _wavelength_to_rgb on its own: one call per behaviour *)

\* wavelengths are the multiples of 1/NmDen between NmMin and NmMax
NmDen == 4
Wavelengths == {Rat(k, NmDen) : k \in (NmMin * NmDen)..(NmMax * NmDen)}

\* max_intensity is a multiple of 1/2 up to MaxIntensity2 / 2
MaxIntensity2 == 4
Intensities == {Rat(k, 2) : k \in 0..MaxIntensity2}

RgbInit ==
    /\ calibration = RealCalibration
    /\ w_step = "call"
    /\ w_nm \in Wavelengths
    /\ w_max \in Intensities
    /\ w_raw = <<>>
    /\ w_factor = RInt(0)
    /\ w_rgb = <<>>
    /\ AppNew
    /\ CalIdle

\* _wavelength_to_rgb(nm, max_intensity)
CallWavelengthToRgb ==
    /\ w_step = "call"
    /\ \E out \in {wavelength_to_rgb(w_nm, w_max)} :
          /\ w_raw' = out.raw
          /\ w_factor' = out.factor
          /\ w_rgb' = out.rgb
    /\ w_step' = "returned"
    /\ UNCHANGED <<w_nm, w_max>>
    /\ UNCHANGED <<calibration, appVars, calVars>>

RgbNext == CallWavelengthToRgb

SpecRgb == RgbInit /\ [][RgbNext]_vars

-----------------------------------------------------------------------------
(* Properties of the snapshot exporter and of the timer loop *)

Running == phase = "running"

\* C1: a snapshot request writes files if and only if a frame has been
\* captured.  While _current_frame is None nothing has been written and the
\* status message is still the initial one; every step that writes a file or
\* changes the message happens with a frame present and writes exactly the two
\* files spectrum_<ts>.png and spectrum_<ts>_graph.png of one timestamp ts and
\* sets the message to name the first; and a request made with a frame present
\* does write.
C1_SnapshotWritesIffFrame ==
    /\ [](Running /\ current_frame = None
            => files = {} /\ n_writes = 0 /\ status_text = <<"Ready">>)
    /\ [][ (Running /\ (files' # files \/ n_writes' # n_writes \/ status_text' # status_text))
             => /\ current_frame # None
                /\ n_writes' = n_writes + 2
                /\ \E now \in Times :
                      /\ files' = files \cup { <<"spectrum_", strftime(now), ".png">>,
                                               <<"spectrum_", strftime(now), "_graph.png">> }
                      /\ status_text' = <<"File spectrum_", strftime(now), ".png saved">> ]_vars
    /\ [][ (SaveSnapshot /\ current_frame # None) => n_writes' = n_writes + 2 ]_vars

\* a snapshot has been written: two writes, two files, and the message names one
C1_Witness ==
    /\ current_frame # None
    /\ n_writes = 2
    /\ Cardinality(files) = 2
    /\ status_text # <<"Ready">>

\* C2: a tick whose frame read fails leaves the line segments and colours, the
\* fill polygons and colours, the thumbnail and the last-frame slot as they
\* were, requests no redraw and raises no error.
C2_FailedTickChangesNothing ==
    [][ TickFail => /\ segments' = segments
                    /\ lc_colors' = lc_colors
                    /\ verts' = verts
                    /\ pc_facecolors' = pc_facecolors
                    /\ pc_edgecolors' = pc_edgecolors
                    /\ overlay_tk_img' = overlay_tk_img
                    /\ current_frame' = current_frame
                    /\ draw_pending' = draw_pending
                    /\ error' = error ]_vars

\* the read of run_forever's update() failed and so did the read of a tick
C2_Witness ==
    /\ Running
    /\ current_frame = None
    /\ after_queue = {1}
    /\ ~draw_pending

\* C3: an application built with two calibration pairs of equal pixel columns
\* or of equal wavelengths fails in its construction with InvalidCalibration.
C3_DegenerateCalibrationRejected ==
    (phase # "new" /\ ~NonDegenerate(calibration))
        => (phase = "failed" /\ error = "InvalidCalibration")

\* C8: after an extraction from a frame of width w and height h the frame is
\* still the camera's, no index was out of range, there are exactly w - 1
\* segments and w - 1 quadrilaterals, and segment k runs from (k, I[k]) to
\* (k + 1, I[k + 1]) and quadrilateral k is (k, 0), (k, I[k]), (k + 1, I[k + 1]),
\* (k + 1, 0), with I the grey values of row h // 2.
C8_ExtractionGeometry ==
    /\ error # "IndexError"
    /\ current_frame # None =>
         \E f \in Frames :
            /\ current_frame = <<f>>
            /\ Len(segments) = Len(f[1]) - 1
            /\ Len(verts) = Len(f[1]) - 1
            /\ Len(lc_colors) = Len(f[1]) - 1
            /\ Len(pc_facecolors) = Len(f[1]) - 1
            /\ \A k \in 0..(Len(f[1]) - 2) :
                 \E a \in {GrayPixel(f[(Len(f) \div 2) + 1][k + 1])},
                    b \in {GrayPixel(f[(Len(f) \div 2) + 1][k + 2])} :
                    /\ segments[k + 1] = << <<k, a>>, <<k + 1, b>> >>
                    /\ verts[k + 1] = << <<k, 0>>, <<k, a>>, <<k + 1, b>>, <<k + 1, 0>> >>

\* an extraction from a frame of two different rows and three columns
C8_Witness ==
    /\ current_frame # None
    /\ Len(current_frame[1]) = 2
    /\ current_frame[1][1] # current_frame[1][2]
    /\ Len(segments) = 2
    /\ segments[1][1][2] # segments[1][2][2]

\* C9: once run_forever has started exactly one tick is pending between
\* callbacks; every run of the tick callback, its read failed or not, leaves
\* exactly one newly scheduled tick; a snapshot request leaves the pending
\* ticks alone; and with a fair timer ticks occur again and again.
C9_PollingLoop ==
    /\ [](Running => Cardinality(after_queue) = 1)
    /\ [][ Tick => (Cardinality(after_queue') = 1 /\ after_queue' # after_queue) ]_vars
    /\ [][ (n_writes' # n_writes \/ files' # files) => after_queue' = after_queue ]_vars
    /\ \A id \in 0..MaxAfterId : Running ~> (after_queue = {id})

\* ticks and a snapshot have run and one tick is pending
C9_Witness ==
    /\ Running
    /\ after_queue = {1}
    /\ n_writes = 2

\* the plot geometry _draw_spectrum extracts from a frame
GeometryOf(f) ==
    [k \in 1..(Len(f[1]) - 1) |->
        << <<k - 1, 0>>,
           <<k - 1, GrayPixel(f[(Len(f) \div 2) + 1][k])>>,
           <<k, GrayPixel(f[(Len(f) \div 2) + 1][k + 1])>>,
           <<k, 0>> >>]

\* C10: between callbacks the last-frame slot is empty and so is the plot, or
\* it holds a frame and the plot's lines and fills are the ones extracted from
\* that frame; a step that changes the slot or the plot changes them together;
\* and a slot that holds a frame is never emptied.
C10_SnapshotCoherence ==
    /\ [](phase \in {"constructed", "running"} =>
            \/ current_frame = None /\ segments = <<>> /\ verts = <<>>
            \/ /\ current_frame # None
               /\ verts = GeometryOf(current_frame[1])
               /\ segments = [k \in 1..Len(verts) |-> <<verts[k][2], verts[k][3]>>])
    /\ [][ (current_frame' # current_frame \/ verts' # verts \/ segments' # segments)
             => (current_frame' # None /\ verts' = GeometryOf(current_frame'[1])) ]_vars
    /\ [][ current_frame # None => current_frame' # None ]_vars

\* a snapshot was written while the slot held a frame of three columns
C10_Witness ==
    /\ current_frame # None
    /\ Len(segments) = 2
    /\ n_writes = 2

-----------------------------------------------------------------------------
(* Properties of the calibration functions *)

\* C4: for every non-degenerate pair of calibration points, the axes running
\* in the same or in opposite directions, _px_to_nm returns nm0 at px0 and nm1
\* at px1.
C4_PassesThroughBothPoints ==
    (c_step = "px_nm" /\ NonDegenerate(calibration)) =>
        /\ c_arg = RInt(calibration[1][1]) => c_mid = Value(RInt(calibration[1][2]))
        /\ c_arg = RInt(calibration[2][1]) => c_mid = Value(RInt(calibration[2][2]))

\* C5: for a non-degenerate calibration neither function raises, and in exact
\* arithmetic _nm_to_px(_px_to_nm(x)) = x for every pixel column x and
\* _px_to_nm(_nm_to_px(nm)) = nm for every wavelength nm.
C5_RoundTrip ==
    NonDegenerate(calibration) =>
        /\ c_step \in {"px_nm", "nm_px"} => c_mid.exc = "none"
        /\ c_step \in {"px_nm_px", "nm_px_nm"} => (c_res.exc = "none" /\ c_res.val = c_arg)

\* the round trip of the last column of the frame through a fractional
\* wavelength, under the calibration of the source
C5_Witness ==
    /\ calibration = RealCalibration
    /\ c_step = "px_nm_px"
    /\ c_arg = RInt(FRAME_WIDTH)
    /\ c_mid.val.d # 1
    /\ c_res.val = c_arg

-----------------------------------------------------------------------------
(* Properties of the colour mapper *)

Returned == w_step = "returned"
Visible(nm) == RLe(RInt(380), nm) /\ RLe(nm, RInt(780))

\* C6: every channel _wavelength_to_rgb returns lies in [0, max_intensity], the
\* value raised to the power gamma (raw channel times factor) lies in [0, 1],
\* and outside [380, 780] the three channels are 0.
C6_ChannelsInRange ==
    Returned =>
        /\ \A i \in 1..3 :
              /\ RLe(RInt(0), w_rgb[i]) /\ RLe(w_rgb[i], w_max)
              /\ RLe(RInt(0), RMul(w_raw[i], w_factor))
              /\ RLe(RMul(w_raw[i], w_factor), RInt(1))
        /\ ~Visible(w_nm) => w_rgb = <<RInt(0), RInt(0), RInt(0)>>

\* the upper end of the visible range, at half intensity: red is lit
C6_Witness ==
    /\ Returned
    /\ w_nm = RInt(780)
    /\ w_max = Rat(1, 2)
    /\ w_rgb[1].n > 0
    /\ w_rgb[2] = RInt(0)

\* the value of a linear ramp at nm, given as  scale * value = at0 + slope * (nm - from)
OnRamp(value, nm, scale, at0, slope, from) ==
    scale * value.n * nm.d = value.d * (at0 * nm.d + slope * (nm.n - from * nm.d))

\* C7 as stated: the factor rises from 0.3 at 380 towards 1.0 at 420, is 1.0 on
\* [420, 701), falls linearly from 1.0 at 701 to 0.3 at 780, and is 0 outside
\* [380, 780]; _wavelength_to_rgb(700, 1.0) is (1, 0, 0).
C7_TaperAsStated ==
    Returned =>
        /\ (RLe(RInt(380), w_nm) /\ RLt(w_nm, RInt(420))) => OnRamp(w_factor, w_nm, 400, 120, 7, 380)
        /\ (RLe(RInt(420), w_nm) /\ RLt(w_nm, RInt(701))) => w_factor = RInt(1)
        /\ (RLe(RInt(701), w_nm) /\ RLe(w_nm, RInt(780))) => OnRamp(w_factor, w_nm, 790, 790, -7, 701)
        /\ ~Visible(w_nm) => w_factor = RInt(0)
        /\ (w_nm = RInt(700) /\ w_max = RInt(1)) => w_rgb = <<RInt(1), RInt(0), RInt(0)>>

\* C7 as amended: on [701, 780] the factor is 0.3 + 0.7 * (780 - nm) / 80, the
\* line through 1.0 at 700 and 0.3 at 780, so it steps from 1.0 down to 0.99125
\* at 701; the other pieces and _wavelength_to_rgb(700, 1.0) are as stated.
C7_Taper ==
    Returned =>
        /\ (RLe(RInt(380), w_nm) /\ RLt(w_nm, RInt(420))) => OnRamp(w_factor, w_nm, 400, 120, 7, 380)
        /\ (RLe(RInt(420), w_nm) /\ RLt(w_nm, RInt(701))) => w_factor = RInt(1)
        /\ (RLe(RInt(701), w_nm) /\ RLe(w_nm, RInt(780))) => OnRamp(w_factor, w_nm, 800, 800, -7, 700)
        /\ ~Visible(w_nm) => w_factor = RInt(0)
        /\ w_nm = RInt(380) => w_factor = Rat(3, 10)
        /\ w_nm = RInt(701) => w_factor = Rat(99125, 100000)
        /\ w_nm = RInt(780) => w_factor = Rat(3, 10)
        /\ (w_nm = RInt(700) /\ w_max = RInt(1)) => w_rgb = <<RInt(1), RInt(0), RInt(0)>>

\* the call at 701, where the falling ramp starts below 1.0
C7_Witness ==
    /\ Returned
    /\ w_nm = RInt(701)
    /\ w_factor = Rat(793, 800)
    /\ w_raw = <<RInt(1), RInt(0), RInt(0)>>

=============================================================================
